---- MODULE Spec2Model ----
(***************************************************************************)
(* Model of the uwu file packer (src/src/pack.ts): FilePacker and packDir. *)
(*                                                                         *)
(* Byte model.  Byte i (0-based) of source file f is the pair <<f, i>>, so *)
(* every byte of the source tree is distinct and any misplaced, missing or *)
(* duplicated byte is visible.  A source file on disk is given by its      *)
(* length.  A SHA-1 state is the sequence of bytes fed to it so far (an    *)
(* injective hash).  gzip is a black box: its output is tagged and its     *)
(* length is 20 + the input length, so it never equals the input length.   *)
(*                                                                         *)
(* Strings are sequences of one-character strings.                         *)
(***************************************************************************)
EXTENDS Integers, Sequences, FiniteSets, TLC

VARIABLES
    pc,             \* position of the packDir call
    err,            \* kind of the error the call rejected with ("" if none)
    options,        \* PackingOptions (the argument until Construct, then this.options)
    srcDir,         \* source tree in listing order: srcDir[f] = length on disk of file f
    enumerated,     \* SourceFiles yielded so far by getFilesRecursively
    srcFile,        \* processFile's srcFile
    totalBytesRead, \* processFile's totalBytesRead
    streamEnd,      \* processFile's streamEnd of the last iteration
    bytesRead,      \* processFile's bytesRead of the last iteration
    curDest,        \* this.curDest
    result,         \* this.result
    dstExists,      \* the destination directory exists
    dstFs,          \* part and temp files of the destination directory: path -> content
    manifest        \* manifest writes so far, in order: [path, content]

vars == <<pc, err, options, srcDir, enumerated, srcFile, totalBytesRead,
          streamEnd, bytesRead, curDest, result, dstExists, dstFs, manifest>>

----------------------------------------------------------------------------
(* Bounds *)

MaxFiles == 2
MaxFileSize == 4
MaxPartSize == 3
MaxRecords == 5

(* Program constants *)

PadWidth == 3

----------------------------------------------------------------------------
(* Helpers *)

Min(a, b) == IF a < b THEN a ELSE b

Max(a, b) == IF a > b THEN a ELSE b

\* sum of a sequence of numbers
RECURSIVE Sum(_)
Sum(s) == IF s = << >> THEN 0 ELSE Head(s) + Sum(Tail(s))

RECURSIVE Flatten(_)
Flatten(ss) == IF ss = << >> THEN << >> ELSE Head(ss) \o Flatten(Tail(ss))

----------------------------------------------------------------------------
(* Strings *)

Placeholder == <<"%", "d">>

Extension == <<".", "u", "w", "u">>

TmpSuffix == <<".", "t", "m", "p">>

Dat == <<"d", "a", "t">>

\* String.prototype.indexOf, 1-based, 0 when t does not occur in s
IndexOf(s, t) ==
    LET At(k) == SubSeq(s, k, k + Len(t) - 1) = t
        Starts == 1..(Len(s) - Len(t) + 1)
    IN  IF \E k \in Starts : At(k)
        THEN CHOOSE k \in Starts : At(k) /\ \A j \in 1..(k - 1) : ~At(j)
        ELSE 0

\* the placeholder check left out
IncludesAlways(s, t) == TRUE

\* String.prototype.includes
Includes(s, t) == IndexOf(s, t) > 0

\* the extension test always failing
EndsWithNever(s, t) == FALSE

\* String.prototype.endsWith
EndsWith(s, t) ==
    /\ Len(s) >= Len(t)
    /\ SubSeq(s, Len(s) - Len(t) + 1, Len(s)) = t

\* String.prototype.replace with a string pattern: the first occurrence only
Replace(s, t, r) ==
    LET i == IndexOf(s, t)
    IN  IF i = 0 THEN s
        ELSE SubSeq(s, 1, i - 1) \o r \o SubSeq(s, i + Len(t), Len(s))

Digit(n) == <<"0", "1", "2", "3", "4", "5", "6", "7", "8", "9">>[n + 1]

\* Number.prototype.toString for a non-negative integer
RECURSIVE NumToString(_)
NumToString(n) ==
    IF n < 10 THEN <<Digit(n)>> ELSE NumToString(n \div 10) \o <<Digit(n % 10)>>

\* the number cut to its last w characters
PadStartTruncating(s, w) ==
    IF Len(s) > w THEN SubSeq(s, Len(s) - w + 1, Len(s))
    ELSE [i \in 1..w |-> IF i <= w - Len(s) THEN "0" ELSE s[i - (w - Len(s))]]

\* String.prototype.padStart(w, '0')
RECURSIVE PadStart(_, _)
PadStart(s, w) == IF Len(s) >= w THEN s ELSE PadStart(<<"0">> \o s, w)

----------------------------------------------------------------------------
(* Files, hashes, gzip *)

\* the whole requested range delivered, whatever the length of the file
ReadRangeUnclipped(f, start, endExcl, len) ==
    [k \in 1..Max(0, endExcl - start) |-> <<f, start + k - 1>>]

\* the bytes fs.createReadStream(f, {start, end: endExcl - 1}) delivers when
\* the file has len bytes on disk: the range clipped at the end of the file
ReadRange(f, start, endExcl, len) ==
    [k \in 1..Max(0, Min(endExcl, len) - start) |-> <<f, start + k - 1>>]

\* the bytes [from, from + n) of a byte sequence (0-based from)
Slice(bytes, from, n) ==
    [k \in 1..n |-> IF from + k <= Len(bytes) THEN bytes[from + k] ELSE <<0, -1>>]

\* crypto.createHash('sha1')
NewHash == << >>

\* the hash restarted by every chunk
HashUpdateLastChunk(h, chunk) == chunk

\* hash.update(chunk)
HashUpdate(h, chunk) == h \o chunk

\* hash.digest('hex')
HashDigest(h) == <<"sha1", h>>

\* a plain file with the given bytes
RawFile(bytes) == [gz |-> FALSE, data |-> bytes]

\* the output of zlib.createGzip over the given bytes
GzipFile(bytes) == [gz |-> TRUE, data |-> bytes]

\* the length of the gzip output: header, trailer and final block (20 bytes
\* for an empty input) around the payload
GzipSize(bytes) == 20 + Len(bytes)

\* the hash of the gzip output
GzipDigest(bytes) == <<"sha1", "gzip", bytes>>

TmpPath(path) == path \o TmpSuffix

\* fs.createWriteStream(path, {flags: 'a+'}) fed with chunk: the file is
\* created when absent, and the chunk is appended to what it holds
WriteAppend(fs, path, chunk) ==
    [p \in DOMAIN fs \cup {path} |->
        IF p = path
        THEN RawFile((IF path \in DOMAIN fs THEN fs[path].data ELSE << >>) \o chunk)
        ELSE fs[p]]

\* a ?? b for an optional a (<< >> when undefined, <<v>> when set)
OrElse(a, b) == IF a = << >> THEN b ELSE a[1]

----------------------------------------------------------------------------
(* FilePacker *)

NewResult == [totalSize |-> 0, compressedSize |-> 0, parts |-> 0, fileList |-> << >>]

\* the part number of the part under construction
currentPartNumber(res) == PadStart(NumToString(Len(res.fileList) + 1), PadWidth)

\* the size of the new part not reset
initCurDstKeepsSize(res, opts) ==
    LET dstName == Replace(opts.outputNameFormat, Placeholder, currentPartNumber(res))
    IN  [name           |-> dstName,
         path           |-> dstName,
         sha1           |-> NewHash,
         size           |-> res.totalSize,
         compressed     |-> opts.compress,
         compressedSize |-> << >>,
         fileListId     |-> Len(res.fileList) + 1,
         fileList       |-> << >>]

\* the new part reusing the array of the first part
initCurDstSharedArray(res, opts) ==
    LET dstName == Replace(opts.outputNameFormat, Placeholder, currentPartNumber(res))
    IN  [name           |-> dstName,
         path           |-> dstName,
         sha1           |-> NewHash,
         size           |-> 0,
         compressed     |-> opts.compress,
         compressedSize |-> << >>,
         fileListId     |-> 1,
         fileList       |-> << >>]

\* FilePacker.initCurDst.  fileList: [] is a new array object: fileListId is
\* its identity (the number of arrays created so far), fileList its content
initCurDst(res, opts) ==
    LET dstName == Replace(opts.outputNameFormat, Placeholder, currentPartNumber(res))
    IN  [name           |-> dstName,
         path           |-> dstName,
         sha1           |-> NewHash,
         size           |-> 0,
         compressed     |-> opts.compress,
         compressedSize |-> << >>,
         fileListId     |-> Len(res.fileList) + 1,
         fileList       |-> << >>]

\* the value of this.curDest while the constructor has not run
NoDest ==
    [name |-> << >>, path |-> << >>, sha1 |-> NewHash, size |-> 0,
     compressed |-> FALSE, compressedSize |-> << >>, fileListId |-> 0,
     fileList |-> << >>]

NoFile == [path |-> 0, size |-> 0]

\* the options as the constructor normalises them
NormalizeOptions(opts) ==
    [opts EXCEPT !.outputNameFormat =
        IF EndsWith(@, Extension) THEN @ ELSE @ \o Extension]

\* fileOffset taken from the part instead of the file
FileRecordSwapped(src, offset, packageOffset, n) ==
    [filePath      |-> src.path,
     fileOffset    |-> packageOffset,
     fileSize      |-> src.size,
     packageOffset |-> packageOffset,
     packageSize   |-> n]

\* fileOffset never advanced
FileRecordNoOffset(src, offset, packageOffset, n) ==
    [filePath      |-> src.path,
     fileOffset    |-> 0,
     fileSize      |-> src.size,
     packageOffset |-> packageOffset,
     packageSize   |-> n]

\* packageOffset taken from the file instead of the part
FileRecordFileOffsetAsPackage(src, offset, packageOffset, n) ==
    [filePath      |-> src.path,
     fileOffset    |-> offset,
     fileSize      |-> src.size,
     packageOffset |-> offset,
     packageSize   |-> n]

\* the FileRecord processFile pushes for one copied range
FileRecord(src, offset, packageOffset, n) ==
    [filePath      |-> src.path,
     fileOffset    |-> offset,
     fileSize      |-> src.size,
     packageOffset |-> packageOffset,
     packageSize   |-> n]

\* fileList.push(rec) on the array id, as seen through the finalized entries
\* of res that hold that same array
PushRecord(res, id, rec) ==
    [res EXCEPT !.fileList =
        [k \in 1..Len(res.fileList) |->
            IF res.fileList[k].fileListId = id
            THEN [res.fileList[k] EXCEPT !.fileList = Append(@, rec)]
            ELSE res.fileList[k]]]

\* the copy loop entered once more when the file is exhausted
LoopConditionLeq(read, src) == read <= src.size

\* processFile's loop condition
LoopCondition(read, src) == read < src.size

\* the end of the range ignoring the capacity of the part
StreamEndWholeFile(read, src, dstEntry, opts) == read + src.size

\* processFile's streamEnd: the (exclusive) end of the range to read
StreamEnd(read, src, dstEntry, opts) ==
    read + Min(src.size, opts.maxPartSize - dstEntry.size)

\* rollover only past the capacity
PartFullGreater(dstEntry, opts) == dstEntry.size > opts.maxPartSize

\* processFile's rollover test
PartFull(dstEntry, opts) == dstEntry.size = opts.maxPartSize

\* finalizePart can read or rename the temp file of the part
TmpExists(dstEntry, fs) == TmpPath(dstEntry.path) \in DOMAIN fs

\* the entry finalizePart pushes to result.fileList
FinalEntry(dstEntry, fs) ==
    LET tmp == fs[TmpPath(dstEntry.path)].data
    IN  [name           |-> dstEntry.name,
         sha1           |-> HashDigest(dstEntry.sha1),
         size           |-> dstEntry.size,
         compressed     |-> dstEntry.compressed,
         compressedSize |-> IF dstEntry.compressed THEN <<GzipSize(tmp)>> ELSE << >>,
         compressedSha1 |-> IF dstEntry.compressed THEN <<GzipDigest(tmp)>> ELSE << >>,
         fileListId     |-> dstEntry.fileListId,
         fileList       |-> dstEntry.fileList]

\* the destination directory after finalizePart: the temp file is gzipped
\* into the part file and removed, or renamed to the part file
FinalizeFs(dstEntry, fs) ==
    LET tmp == TmpPath(dstEntry.path)
    IN  [p \in (DOMAIN fs \ {tmp}) \cup {dstEntry.path} |->
            IF p = dstEntry.path
            THEN IF dstEntry.compressed THEN GzipFile(fs[tmp].data) ELSE fs[tmp]
            ELSE fs[p]]

\* the destination directory after finalizePart failed for want of the temp
\* file: renameSync changes nothing; the gzip pipeline may or may not have
\* opened (created or truncated) the part file before the read side failed
FinalizeFailFs(dstEntry, fs) ==
    IF dstEntry.compressed
    THEN {fs, [p \in DOMAIN fs \cup {dstEntry.path} |->
                  IF p = dstEntry.path THEN RawFile(<< >>) ELSE fs[p]]}
    ELSE {fs}

\* totalSize assigned instead of accumulated
FinalizeResultAssign(dstEntry, res, fs) ==
    [res EXCEPT
        !.totalSize = dstEntry.size,
        !.compressedSize = @ + OrElse(dstEntry.compressedSize, dstEntry.size),
        !.fileList = Append(@, FinalEntry(dstEntry, fs))]

\* this.result after finalizePart
FinalizeResult(dstEntry, res, fs) ==
    [res EXCEPT
        !.totalSize = @ + dstEntry.size,
        !.compressedSize = @ + OrElse(dstEntry.compressedSize, dstEntry.size),
        !.fileList = Append(@, FinalEntry(dstEntry, fs))]

\* finalizePart(dstEntry) with this.result = res on the destination directory
\* fs, continuing at next
finalizePart(dstEntry, res, fs, next) ==
    IF TmpExists(dstEntry, fs)
    THEN /\ result' = FinalizeResult(dstEntry, res, fs)
         /\ curDest' = initCurDst(result', options)
         /\ dstFs' = FinalizeFs(dstEntry, fs)
         /\ pc' = next
         /\ err' = err
    ELSE /\ result' = res
         /\ curDest' = dstEntry
         /\ dstFs' \in FinalizeFailFs(dstEntry, fs)
         /\ pc' = "error"
         /\ err' = "io"

----------------------------------------------------------------------------
(* Initial states *)

OutputNameFormats ==
    { <<"%", "d">>,
      <<"p", "%", "d", ".", "u", "w", "u">>,
      <<"p", "d">> }

\* source trees: up to MaxFiles files of 0..MaxFileSize bytes each
SourceTrees == UNION { [1..n -> 0..MaxFileSize] : n \in 0..MaxFiles }

InitCall(tree, opts, exists) ==
    /\ pc = "new"
    /\ err = ""
    /\ options = opts
    /\ srcDir = tree
    /\ enumerated = << >>
    /\ srcFile = NoFile
    /\ totalBytesRead = 0
    /\ streamEnd = 0
    /\ bytesRead = 0
    /\ curDest = NoDest
    /\ result = NewResult
    /\ dstExists = exists
    /\ dstFs = << >>
    /\ manifest = << >>

\* packDir called on a small source tree with a destination directory that
\* is absent or holds none of the run's files
InitSmall ==
    \E tree \in SourceTrees, m \in 1..MaxPartSize, c \in BOOLEAN,
       f \in OutputNameFormats, exists \in BOOLEAN :
        InitCall(tree,
                 [maxPartSize |-> m, outputNameFormat |-> f, compress |-> c],
                 exists)

\* the scenario of the specification: files of 700 and 900 bytes, parts of 1000
InitScenario ==
    InitCall(<<700, 900>>,
             [maxPartSize |-> 1000, outputNameFormat |-> <<"%", "d">>,
              compress |-> FALSE],
             FALSE)

Init == InitSmall \/ InitScenario

\* the number of parts a long run has finalized where the model picks it up:
\* just before the part numbers grow to 2, 3 and 4 digits
LongRunParts == {8, 98, 998}

DigitValue(c) ==
    CASE c = "0" -> 0 [] c = "1" -> 1 [] c = "2" -> 2 [] c = "3" -> 3
      [] c = "4" -> 4 [] c = "5" -> 5 [] c = "6" -> 6 [] c = "7" -> 7
      [] c = "8" -> 8 [] c = "9" -> 9 [] OTHER -> -1

\* the number the digits of a part name spell (the part number, as the
\* formats hold no digit)
RECURSIVE NumberIn(_)
NumberIn(p) ==
    IF p = << >> THEN 0
    ELSE LET d == DigitValue(p[Len(p)])
             rest == NumberIn(SubSeq(p, 1, Len(p) - 1))
         IN  IF d < 0 THEN rest ELSE 10 * rest + d

\* the name initCurDst gives part i
PartName(i, opts) ==
    initCurDst([NewResult EXCEPT !.fileList = [j \in 1..(i - 1) |-> 0]], opts).name

\* the state of packDir on a single file of n bytes with maxPartSize = 1,
\* compress = false and format f, when k < n bytes are copied: k parts of one
\* byte each are finalized and processFile is in its copy loop
LongRunState(k, n, f) ==
    LET opts == NormalizeOptions([maxPartSize |-> 1, outputNameFormat |-> f,
                                  compress |-> FALSE])
        src == [path |-> 1, size |-> n]
        names == [i \in 1..k |-> PartName(i, opts)]
        entries == [i \in 1..k |->
                      [name           |-> names[i],
                       sha1           |-> HashDigest(<< <<1, i - 1>> >>),
                       size           |-> 1,
                       compressed     |-> FALSE,
                       compressedSize |-> << >>,
                       compressedSha1 |-> << >>,
                       fileListId     |-> i,
                       fileList       |-> <<FileRecord(src, i - 1, 0, 1)>>]]
        res == [totalSize |-> k, compressedSize |-> k, parts |-> 0,
                fileList |-> entries]
    IN  /\ pc = "copy"
        /\ err = ""
        /\ options = opts
        /\ srcDir = <<n>>
        /\ enumerated = <<src>>
        /\ srcFile = src
        /\ totalBytesRead = k
        /\ streamEnd = k
        /\ bytesRead = 1
        /\ curDest = initCurDst(res, opts)
        /\ result = res
        /\ dstExists = TRUE
        /\ dstFs = [p \in {names[i] : i \in 1..k} |->
                       RawFile(<< <<1, NumberIn(p) - 1>> >>)]
        /\ manifest = << >>

\* packDir picked up in the middle of a long run
InitLongRun ==
    \E k \in LongRunParts, f \in {<<"%", "d">>, <<"p", "%", "d", ".", "u", "w", "u">>} :
        LongRunState(k, k + 3, f)

----------------------------------------------------------------------------
(* Actions *)

\* packDir: new FilePacker(srcDir, dstDir, options)
Construct ==
    /\ pc = "new"
    /\ IF ~Includes(options.outputNameFormat, Placeholder)
       THEN /\ pc' = "error"
            /\ err' = "config"
            /\ UNCHANGED <<options, curDest>>
       ELSE /\ options' = NormalizeOptions(options)
            /\ curDest' = initCurDst(result, options')
            /\ pc' = "pack"
            /\ err' = err
    /\ UNCHANGED <<srcDir, enumerated, srcFile, totalBytesRead, streamEnd,
                   bytesRead, result, dstExists, dstFs, manifest>>

\* pack: create the destination directory when it does not exist
PackStart ==
    /\ pc = "pack"
    /\ dstExists' = TRUE
    /\ pc' = "next"
    /\ UNCHANGED <<err, options, srcDir, enumerated, srcFile, totalBytesRead,
                   streamEnd, bytesRead, curDest, result, dstFs, manifest>>

\* pack: the generator yields the next file (stat at this moment) and
\* processFile starts on it
NextFile ==
    /\ pc = "next"
    /\ Len(enumerated) < Len(srcDir)
    /\ LET f == Len(enumerated) + 1
           src == [path |-> f, size |-> srcDir[f]]
       IN  /\ enumerated' = Append(enumerated, src)
           /\ srcFile' = src
    /\ totalBytesRead' = 0
    /\ streamEnd' = 0
    /\ bytesRead' = 0
    /\ pc' = "copy"
    /\ UNCHANGED <<err, options, srcDir, curDest, result, dstExists, dstFs,
                   manifest>>

\* processFile: one iteration of the copy loop
ProcessFileStep ==
    /\ pc = "copy"
    /\ LoopCondition(totalBytesRead, srcFile)
    /\ Len(curDest.fileList) < MaxRecords
    /\ LET end == StreamEnd(totalBytesRead, srcFile, curDest, options)
           chunk == ReadRange(srcFile.path, totalBytesRead, end,
                              srcDir[srcFile.path])
           fs1 == WriteAppend(dstFs, TmpPath(curDest.path), chunk)
           rec == FileRecord(srcFile, totalBytesRead, curDest.size, Len(chunk))
           cur1 == [curDest EXCEPT
                       !.sha1 = HashUpdate(@, chunk),
                       !.fileList = Append(@, rec),
                       !.size = @ + Len(chunk)]
           res1 == PushRecord(result, curDest.fileListId, rec)
       IN  /\ streamEnd' = end
           /\ bytesRead' = Len(chunk)
           /\ totalBytesRead' = totalBytesRead + Len(chunk)
           /\ IF PartFull(cur1, options)
              THEN finalizePart(cur1, res1, fs1, "copy")
              ELSE /\ curDest' = cur1
                   /\ dstFs' = fs1
                   /\ result' = res1
                   /\ UNCHANGED <<pc, err>>
    /\ UNCHANGED <<options, srcDir, enumerated, srcFile, dstExists, manifest>>

\* processFile returns: the copy loop's condition is false
ProcessFileReturn ==
    /\ pc = "copy"
    /\ ~LoopCondition(totalBytesRead, srcFile)
    /\ pc' = "next"
    /\ UNCHANGED <<err, options, srcDir, enumerated, srcFile, totalBytesRead,
                   streamEnd, bytesRead, curDest, result, dstExists, dstFs,
                   manifest>>

\* pack: the generator is exhausted; finalize the current part
FinalizeLast ==
    /\ pc = "next"
    /\ Len(enumerated) = Len(srcDir)
    /\ finalizePart(curDest, result, dstFs, "manifest")
    /\ UNCHANGED <<options, srcDir, enumerated, srcFile, totalBytesRead,
                   streamEnd, bytesRead, dstExists, manifest>>

\* the manifest written at the end of every source file
WriteManifestInLoop ==
    /\ pc = "manifest"
    /\ result' = [result EXCEPT !.parts = Len(result.fileList)]
    /\ manifest' = Append(manifest,
                          [path    |-> Replace(options.outputNameFormat,
                                               Placeholder, Dat),
                           content |-> result'])
    /\ pc' = "next"
    /\ UNCHANGED <<err, options, srcDir, enumerated, srcFile, totalBytesRead,
                   streamEnd, bytesRead, curDest, dstExists, dstFs>>

\* pack: set result.parts, write the manifest and return the result
WriteManifest ==
    /\ pc = "manifest"
    /\ result' = [result EXCEPT !.parts = Len(result.fileList)]
    /\ manifest' = Append(manifest,
                          [path    |-> Replace(options.outputNameFormat,
                                               Placeholder, Dat),
                           content |-> result'])
    /\ pc' = "done"
    /\ UNCHANGED <<err, options, srcDir, enumerated, srcFile, totalBytesRead,
                   streamEnd, bytesRead, curDest, dstExists, dstFs>>

\* the environment changes the length of the file being copied, after the
\* generator took its size (at most once per file)
ModifySource ==
    /\ pc = "copy"
    /\ srcDir[srcFile.path] = srcFile.size
    /\ \E n \in 0..MaxFileSize :
        /\ n # srcFile.size
        /\ srcDir' = [srcDir EXCEPT ![srcFile.path] = n]
    /\ UNCHANGED <<pc, err, options, enumerated, srcFile, totalBytesRead,
                   streamEnd, bytesRead, curDest, result, dstExists, dstFs,
                   manifest>>

\* getFilesRecursively throws: readdirSync of the source directory (first
\* request) or statSync of the next file fails
EnumerationFails ==
    /\ pc = "next"
    /\ Len(enumerated) < Len(srcDir) \/ srcDir = << >>
    /\ pc' = "error"
    /\ err' = "enum"
    /\ UNCHANGED <<options, srcDir, enumerated, srcFile, totalBytesRead,
                   streamEnd, bytesRead, curDest, result, dstExists, dstFs,
                   manifest>>

\* processFile: the copy pipeline rejects (read or write error) after a
\* prefix of the range went through the hash and a prefix of that reached
\* the temp file
CopyFails ==
    /\ pc = "copy"
    /\ LoopCondition(totalBytesRead, srcFile)
    /\ LET end == StreamEnd(totalBytesRead, srcFile, curDest, options)
           chunk == ReadRange(srcFile.path, totalBytesRead, end,
                              srcDir[srcFile.path])
       IN  \E hashed \in 0..Len(chunk) : \E written \in 0..hashed :
               /\ streamEnd' = end
               /\ bytesRead' = hashed
               /\ curDest' = [curDest EXCEPT
                                 !.sha1 = HashUpdate(@, SubSeq(chunk, 1, hashed))]
               /\ dstFs' \in {dstFs,
                               WriteAppend(dstFs, TmpPath(curDest.path),
                                           SubSeq(chunk, 1, written))}
    /\ pc' = "error"
    /\ err' = "io"
    /\ UNCHANGED <<options, srcDir, enumerated, srcFile, totalBytesRead,
                   result, dstExists, manifest>>

\* processFile: the range is copied and fills the part, and finalizePart
\* throws (rename, gzip or write error)
RolloverFails ==
    /\ pc = "copy"
    /\ LoopCondition(totalBytesRead, srcFile)
    /\ LET end == StreamEnd(totalBytesRead, srcFile, curDest, options)
           chunk == ReadRange(srcFile.path, totalBytesRead, end,
                              srcDir[srcFile.path])
           rec == FileRecord(srcFile, totalBytesRead, curDest.size, Len(chunk))
           cur1 == [curDest EXCEPT
                       !.sha1 = HashUpdate(@, chunk),
                       !.fileList = Append(@, rec),
                       !.size = @ + Len(chunk)]
       IN  /\ PartFull(cur1, options)
           /\ streamEnd' = end
           /\ bytesRead' = Len(chunk)
           /\ totalBytesRead' = totalBytesRead + Len(chunk)
           /\ curDest' = cur1
           /\ result' = PushRecord(result, curDest.fileListId, rec)
           /\ dstFs' = WriteAppend(dstFs, TmpPath(curDest.path), chunk)
    /\ pc' = "error"
    /\ err' = "io"
    /\ UNCHANGED <<options, srcDir, enumerated, srcFile, dstExists, manifest>>

\* pack: the final finalizePart throws (rename, gzip or write error)
FinalizeFails ==
    /\ pc = "next"
    /\ Len(enumerated) = Len(srcDir)
    /\ pc' = "error"
    /\ err' = "io"
    /\ UNCHANGED <<options, srcDir, enumerated, srcFile, totalBytesRead,
                   streamEnd, bytesRead, curDest, result, dstExists, dstFs,
                   manifest>>

Next ==
    \/ Construct
    \/ PackStart
    \/ NextFile
    \/ ProcessFileStep
    \/ ProcessFileReturn
    \/ FinalizeLast
    \/ WriteManifest

\* packDir on a source tree nobody else touches during the run
Spec == Init /\ [][Next]_vars

NextEnv == Next \/ ModifySource

\* packDir on a source tree whose files may change during the run
SpecEnv == Init /\ [][NextEnv]_vars

\* packDir on the small source trees and in the middle of long runs
SpecLong == (InitSmall \/ InitLongRun) /\ [][Next]_vars

NextFault ==
    \/ Next
    \/ EnumerationFails
    \/ CopyFails
    \/ RolloverFails
    \/ FinalizeFails

\* packDir on the small source trees with enumeration, copy and finalization
\* steps that may fail
SpecFault == InitSmall /\ [][NextFault]_vars

----------------------------------------------------------------------------
(* Views of the state used by the properties *)

\* the run returned its result / rejected
Succeeded == pc = "done"

Failed == pc = "error"

\* the parts in order: the finalized ones, then the one under construction
PartLists ==
    [k \in 1..(Len(result.fileList) + 1) |->
        IF k <= Len(result.fileList) THEN result.fileList[k].fileList
        ELSE curDest.fileList]

\* every FileRecord with the number of the part holding it, in part order
\* and, within a part, in fileList order
LocatedRecords ==
    Flatten([k \in 1..Len(PartLists) |->
                [i \in 1..Len(PartLists[k]) |-> [part |-> k, rec |-> PartLists[k][i]]]])

IsRecordOf(f, x) == x.rec.filePath = f

RecordsOfFile(f) == SelectSeq(LocatedRecords, LAMBDA x : IsRecordOf(f, x))

\* the (uncompressed) bytes of finalized part k in the destination directory
PartBytes(k) ==
    IF result.fileList[k].name \in DOMAIN dstFs
    THEN dstFs[result.fileList[k].name].data
    ELSE << >>

\* the bytes of source file f as enumerated
OriginalBytes(f) == [k \in 1..enumerated[f].size |-> <<f, k - 1>>]

\* the source bytes a FileRecord describes
RecordSourceBytes(r) == [k \in 1..r.packageSize |-> <<r.filePath, r.fileOffset + k - 1>>]

PackageSizes(fileList) == [i \in 1..Len(fileList) |-> fileList[i].packageSize]

PartSizes == [k \in 1..Len(result.fileList) |-> result.fileList[k].size]

EnumeratedSizes == [f \in 1..Len(enumerated) |-> enumerated[f].size]

\* processFile has returned for enumerated file f
Processed(f) ==
    \/ f < Len(enumerated)
    \/ f = Len(enumerated) /\ totalBytesRead >= enumerated[f].size

----------------------------------------------------------------------------
(* C1 *)

\* the records rs tile [0, size): they start at 0, each starts where the
\* previous one ends, offsets ascend, and the last one ends at size
Tiles(rs, size) ==
    IF rs = << >> THEN size = 0
    ELSE /\ rs[1].rec.fileOffset = 0
         /\ \A i \in 1..(Len(rs) - 1) :
               /\ rs[i + 1].rec.fileOffset = rs[i].rec.fileOffset + rs[i].rec.packageSize
               /\ rs[i + 1].rec.fileOffset > rs[i].rec.fileOffset
         /\ rs[Len(rs)].rec.fileOffset + rs[Len(rs)].rec.packageSize = size

\* the part bytes the records rs describe, concatenated
Reconstruct(rs) ==
    Flatten([i \in 1..Len(rs) |->
                Slice(PartBytes(rs[i].part), rs[i].rec.packageOffset,
                      rs[i].rec.packageSize)])

\* C1: after a successful run the FileRecords of every source file, in
\* ascending fileOffset order across the parts, cover [0, fileSize) exactly
\* once, and the part bytes they describe, concatenated, are the file
C1_RecordsReproduceFiles ==
    Succeeded =>
        \A f \in 1..Len(enumerated) :
            /\ Tiles(RecordsOfFile(f), enumerated[f].size)
            /\ \A i \in 1..Len(RecordsOfFile(f)) :
                  /\ RecordsOfFile(f)[i].part <= Len(result.fileList)
                  /\ RecordsOfFile(f)[i].rec.fileSize = enumerated[f].size
            /\ Reconstruct(RecordsOfFile(f)) = OriginalBytes(f)

\* a successful run in which a file is split over two parts and another
\* file shares a part with it
C1_Witness ==
    /\ Succeeded
    /\ Len(enumerated) >= 2
    /\ \E f \in 1..Len(enumerated) :
          /\ Len(RecordsOfFile(f)) >= 2
          /\ RecordsOfFile(f)[1].part # RecordsOfFile(f)[2].part
          /\ RecordsOfFile(f)[1].rec.packageOffset > 0

----------------------------------------------------------------------------
(* C2 *)

\* C2: a run with compress = false that completes has the sum of the part
\* sizes equal to the sum of the enumerated file sizes and to totalSize
C2_SizesAddUp ==
    (Succeeded /\ ~options.compress) =>
        /\ Sum(PartSizes) = Sum(EnumeratedSizes)
        /\ Sum(PartSizes) = result.totalSize

C2_Witness ==
    /\ Succeeded
    /\ ~options.compress
    /\ Len(result.fileList) >= 2
    /\ Len(enumerated) >= 2
    /\ result.totalSize = Sum(EnumeratedSizes)
    /\ result.totalSize > options.maxPartSize

----------------------------------------------------------------------------
(* C3 *)

\* C3: in every state the part under construction and every finalized part
\* have size equal to the sum of packageSize over their FileRecords
C3_SizeIsSumOfPackageSizes ==
    /\ curDest.size = Sum(PackageSizes(curDest.fileList))
    /\ \A k \in 1..Len(result.fileList) :
          result.fileList[k].size = Sum(PackageSizes(result.fileList[k].fileList))

\* a finalized part with two records while the next part holds a record
C3_Witness ==
    /\ Len(result.fileList) >= 1
    /\ Len(result.fileList[1].fileList) >= 2
    /\ result.fileList[1].size >= 2
    /\ curDest.size >= 1
    /\ Len(curDest.fileList) >= 1

----------------------------------------------------------------------------
(* C4 *)

\* the source byte ranges the records of a file list describe, concatenated
\* in fileList order
DescribedBytes(fileList) ==
    Flatten([i \in 1..Len(fileList) |-> RecordSourceBytes(fileList[i])])

Range(s) == {s[i] : i \in 1..Len(s)}

\* C4: the sha1 of every finalized part is the hash of the bytes written to
\* that part in write order, which are the source ranges its records
\* describe in fileList order, and shares no byte with another part
C4_HashCoversThePart ==
    \A k \in 1..Len(result.fileList) :
        /\ result.fileList[k].sha1 = HashDigest(PartBytes(k))
        /\ result.fileList[k].sha1 =
              HashDigest(DescribedBytes(result.fileList[k].fileList))
        /\ \A j \in 1..Len(result.fileList) :
              j # k => Range(result.fileList[k].sha1[2])
                           \cap Range(result.fileList[j].sha1[2]) = {}

\* two finalized parts, the first holding ranges of two different files
C4_Witness ==
    /\ Len(result.fileList) >= 2
    /\ Len(result.fileList[1].fileList) >= 2
    /\ result.fileList[1].fileList[1].filePath # result.fileList[1].fileList[2].filePath
    /\ result.fileList[1].sha1 = HashDigest(PartBytes(1))
    /\ result.fileList[2].size > 0

----------------------------------------------------------------------------
(* C5 *)

\* the scenario of the specification
IsScenario == srcDir = <<700, 900>> /\ options.maxPartSize = 1000

\* C5: no part exceeds maxPartSize, every finalized part but the last has
\* exactly maxPartSize bytes, and files of 700 and 900 bytes with
\* maxPartSize = 1000 end in parts of 1000 and 600 bytes, parts = 2,
\* totalSize = 1600
C5_PartSizeBound ==
    /\ curDest.size <= options.maxPartSize
    /\ \A k \in 1..Len(result.fileList) :
          /\ result.fileList[k].size <= options.maxPartSize
          /\ k < Len(result.fileList) => result.fileList[k].size = options.maxPartSize
    /\ (IsScenario /\ (Succeeded \/ Failed)) =>
          /\ Succeeded
          /\ PartSizes = <<1000, 600>>
          /\ result.parts = 2
          /\ result.totalSize = 1600

C5_Witness ==
    /\ IsScenario
    /\ Succeeded
    /\ PartSizes = <<1000, 600>>
    /\ result.parts = 2
    /\ result.totalSize = 1600
    /\ PackageSizes(result.fileList[1].fileList) = <<700, 300>>

----------------------------------------------------------------------------
(* C6 *)

\* processFile is about to copy the first range of a file whose size is
\* exactly the remaining capacity of the current part
ExactFit ==
    /\ pc = "copy"
    /\ totalBytesRead = 0
    /\ srcFile.size > 0
    /\ srcFile.size = options.maxPartSize - curDest.size

\* C6: a file whose size equals the remaining capacity of the current part
\* gets exactly one FileRecord (fileOffset 0, packageSize = fileSize), and
\* the part is finalized with size = maxPartSize before the next file
C6_ExactFitRollsOver ==
    [][ExactFit =>
          /\ Len(result'.fileList) = Len(result.fileList) + 1
          /\ result'.fileList[Len(result'.fileList)].size = options.maxPartSize
          /\ result'.fileList[Len(result'.fileList)].fileList =
                Append(curDest.fileList,
                       [filePath |-> srcFile.path, fileOffset |-> 0,
                        fileSize |-> srcFile.size,
                        packageOffset |-> curDest.size,
                        packageSize |-> srcFile.size])
          /\ curDest'.fileList = << >>
          /\ curDest'.size = 0
          /\ Len(RecordsOfFile(srcFile.path))' = 1
          /\ totalBytesRead' = srcFile.size
          /\ pc' = "copy"
          /\ enumerated' = enumerated]_vars

\* an exact fit into a part that already holds bytes of an earlier file has
\* rolled the part over, and processFile has returned
C6_Witness ==
    /\ pc = "next"
    /\ Len(enumerated) = 2
    /\ enumerated[1].size > 0
    /\ enumerated[1].size + enumerated[2].size = options.maxPartSize
    /\ Len(result.fileList) = 1
    /\ Len(RecordsOfFile(2)) = 1
    /\ curDest.fileList = << >>

----------------------------------------------------------------------------
(* C7 *)

\* C7: a processed source file larger than maxPartSize has at least two
\* FileRecords, each in the part after the part of the previous one, and
\* consecutive records of any file satisfy
\* record[i+1].fileOffset = record[i].fileOffset + record[i].packageSize
C7_LargeFileSpansParts ==
    \A f \in 1..Len(enumerated) :
        /\ \A i \in 1..(Len(RecordsOfFile(f)) - 1) :
              RecordsOfFile(f)[i + 1].rec.fileOffset =
                  RecordsOfFile(f)[i].rec.fileOffset
                      + RecordsOfFile(f)[i].rec.packageSize
        /\ (Processed(f) /\ enumerated[f].size > options.maxPartSize) =>
              /\ Len(RecordsOfFile(f)) >= 2
              /\ \A i \in 1..(Len(RecordsOfFile(f)) - 1) :
                    RecordsOfFile(f)[i + 1].part = RecordsOfFile(f)[i].part + 1

\* a processed file larger than maxPartSize that started in a part holding
\* an earlier file, spans three parts and whose last range lies in the part
\* under construction
C7_Witness ==
    /\ pc = "next"
    /\ Len(enumerated) = 2
    /\ enumerated[2].size > options.maxPartSize
    /\ Len(RecordsOfFile(2)) >= 3
    /\ RecordsOfFile(2)[1].rec.packageOffset > 0
    /\ RecordsOfFile(2)[Len(RecordsOfFile(2))].part = Len(result.fileList) + 1

----------------------------------------------------------------------------
(* C8 *)

\* C8: packing an empty directory succeeds with exactly one empty part,
\* parts = 1, totalSize = 0, and the manifest written
C8_EmptyDirectoryPacks ==
    (srcDir = << >> /\ (Succeeded \/ Failed) /\ err # "config") =>
        /\ Succeeded
        /\ Len(result.fileList) = 1
        /\ result.fileList[1].size = 0
        /\ result.fileList[1].fileList = << >>
        /\ result.parts = 1
        /\ result.totalSize = 0
        /\ Len(manifest) = 1

----------------------------------------------------------------------------
(* C9 *)

\* the outputNameFormat of the call has no placeholder
BadFormat == IndexOf(options.outputNameFormat, Placeholder) = 0

\* C9: with an outputNameFormat without the placeholder the call fails with
\* the configuration error and the destination is untouched: the directory
\* is not created and no part, temp or manifest file is written
C9_BadFormatFailsFirst ==
    [][BadFormat =>
          /\ pc = "new"
          /\ pc' = "error"
          /\ err' = "config"
          /\ dstExists' = dstExists
          /\ dstFs' = dstFs
          /\ manifest' = manifest]_vars

C9_Witness ==
    /\ BadFormat
    /\ Failed
    /\ err = "config"
    /\ ~dstExists
    /\ dstFs = << >>
    /\ manifest = << >>

----------------------------------------------------------------------------
(* C10 *)

\* the copy loop has run for the current file
Copied == streamEnd > 0

\* totalBytesRead before the last iteration of the copy loop
ReadBefore == totalBytesRead - bytesRead

\* the bytes the last iteration had to transfer:
\* min(srcFile.size - read, maxPartSize - currentPart.size)
LastWant == Min(srcFile.size - ReadBefore, streamEnd - ReadBefore)

\* C10: a copy that transfers a number of bytes other than want makes the
\* run fail
C10_ShortReadIsFatal ==
    (Copied /\ bytesRead # LastWant) => Failed

----------------------------------------------------------------------------
(* C11 *)

\* what every finalized part contributes to the compressed total
CompressedSizes ==
    [k \in 1..Len(result.fileList) |->
        OrElse(result.fileList[k].compressedSize, result.fileList[k].size)]

\* C11: after a successful run result.compressedSize is the sum over the
\* parts of compressedSize when present and of size otherwise
C11_CompressedSizeIsSum ==
    Succeeded => result.compressedSize = Sum(CompressedSizes)

----------------------------------------------------------------------------
(* C12 *)

\* no part is left open: the current part is fresh, the destination holds no
\* temp file and holds the file of every finalized part
AllPartsFinalized ==
    /\ curDest.fileList = << >>
    /\ curDest.size = 0
    /\ \A p \in DOMAIN dstFs : ~EndsWith(p, TmpSuffix)
    /\ \A k \in 1..Len(result.fileList) : result.fileList[k].name \in DOMAIN dstFs

\* C12: the manifest is written at most once and only after every source
\* file is copied and every part, the last included, is finalized; a run in
\* which an enumeration, copy or finalization step fails ends in the error
\* and never writes the manifest
C12_ManifestOnceAtTheEnd ==
    /\ Len(manifest) <= 1
    /\ manifest # << >> =>
          /\ Succeeded
          /\ Len(enumerated) = Len(srcDir)
          /\ \A f \in 1..Len(enumerated) : Processed(f)
          /\ AllPartsFinalized
          /\ manifest[1].content = result
          /\ result.parts = Len(result.fileList)
    /\ Failed => manifest = << >> /\ err \in {"config", "enum", "io"}

\* the manifest of a successful run of two files in two parts
C12_Witness ==
    /\ Succeeded
    /\ Len(manifest) = 1
    /\ Len(enumerated) = 2
    /\ Len(manifest[1].content.fileList) = 2

----------------------------------------------------------------------------
(* C13 *)

\* the state LongRunState describes is the one packDir reaches
LongRunStatesAreReached ==
    \A k \in 1..(MaxFileSize - 1) :
        (/\ pc = "copy"
         /\ Len(srcDir) = 1
         /\ srcDir[1] > k
         /\ options.maxPartSize = 1
         /\ ~options.compress
         /\ totalBytesRead = k)
        => \E f \in OutputNameFormats : LongRunState(k, srcDir[1], f)

NumDigits(k) == IF k < 10 THEN 1 ELSE IF k < 100 THEN 2 ELSE IF k < 1000 THEN 3 ELSE 4

Pow10(e) == IF e = 0 THEN 1 ELSE IF e = 1 THEN 10 ELSE IF e = 2 THEN 100 ELSE 1000

\* k < 10000 in decimal, zero-padded to at least 3 digits
ZeroPadded(k) ==
    LET w == Max(3, NumDigits(k))
    IN  [i \in 1..w |-> Digit((k \div Pow10(w - i)) % 10)]

\* the format with its (first) placeholder replaced by k zero-padded
ExpectedPartName(k) ==
    LET f == options.outputNameFormat
        i == IndexOf(f, Placeholder)
    IN  SubSeq(f, 1, i - 1) \o ZeroPadded(k) \o SubSeq(f, i + 2, Len(f))

PartNames == [k \in 1..Len(result.fileList) |-> result.fileList[k].name]

\* C13: the k-th part is named by the format with the placeholder replaced
\* by k zero-padded to at least 3 digits, part names are pairwise distinct
\* for any number of parts, and finalizing a part never overwrites the file
\* of an earlier part
C13_PartNamesAreDistinct ==
    /\ [](/\ \A k \in 1..Len(result.fileList) : PartNames[k] = ExpectedPartName(k)
          /\ Cardinality(Range(PartNames)) = Len(PartNames)
          /\ pc \in {"pack", "next", "copy"} =>
                /\ curDest.name = ExpectedPartName(Len(result.fileList) + 1)
                /\ curDest.name \notin Range(PartNames)
                /\ curDest.name \notin DOMAIN dstFs)
    /\ [][\A k \in 1..Len(result.fileList) :
             /\ result'.fileList[k].name = result.fileList[k].name
             /\ result.fileList[k].name \in DOMAIN dstFs'
             /\ dstFs'[result.fileList[k].name] = dstFs[result.fileList[k].name]]_vars

\* part 1000 is finalized next to parts 001..999
C13_Witness ==
    /\ Len(result.fileList) = 1000
    /\ PartNames[1000] \in {<<"1", "0", "0", "0", ".", "u", "w", "u">>,
                            <<"p", "1", "0", "0", "0", ".", "u", "w", "u">>}
    /\ PartNames[1000] \in DOMAIN dstFs
    /\ PartNames[100] \in DOMAIN dstFs

----------------------------------------------------------------------------
(* C14 *)

\* s ends in ".uwu"
HasExtension(s) ==
    /\ Len(s) >= 4
    /\ s[Len(s) - 3] = "."
    /\ s[Len(s) - 2] = "u"
    /\ s[Len(s) - 1] = "w"
    /\ s[Len(s)] = "u"

\* the number of times ".uwu" is repeated at the end of s
RECURSIVE TrailingExtensions(_)
TrailingExtensions(s) ==
    IF HasExtension(s) THEN 1 + TrailingExtensions(SubSeq(s, 1, Len(s) - 4)) ELSE 0

\* the constructor has normalised the options
Constructed == pc # "new" /\ err # "config"

\* C14: the constructor leaves a format ending in '.uwu' unchanged and
\* appends '.uwu' exactly once to any other, normalising again changes
\* nothing, and every part name and the manifest name end in exactly one
\* '.uwu'
C14_ExtensionOnce ==
    /\ [][(pc = "new" /\ pc' = "pack") =>
            /\ options'.outputNameFormat =
                  IF HasExtension(options.outputNameFormat)
                  THEN options.outputNameFormat
                  ELSE options.outputNameFormat \o <<".", "u", "w", "u">>
            /\ NormalizeOptions(options') = options']_vars
    /\ [](Constructed =>
            /\ TrailingExtensions(options.outputNameFormat) = 1
            /\ TrailingExtensions(curDest.name) = 1
            /\ \A k \in 1..Len(result.fileList) :
                  TrailingExtensions(result.fileList[k].name) = 1
            /\ \A i \in 1..Len(manifest) : TrailingExtensions(manifest[i].path) = 1)

\* a successful run whose format already ended in '.uwu'
C14_Witness ==
    /\ Succeeded
    /\ options.outputNameFormat = <<"p", "%", "d", ".", "u", "w", "u">>
    /\ result.fileList[1].name = <<"p", "0", "0", "1", ".", "u", "w", "u">>
    /\ manifest[1].path = <<"p", "d", "a", "t", ".", "u", "w", "u">>

----------------------------------------------------------------------------
(* C15 *)

\* the copy loop is about to run an iteration
Copying == pc = "copy" /\ LoopCondition(totalBytesRead, srcFile)

\* min(srcFile.size - read, maxPartSize - currentPart.size) before the write
Want == Min(srcFile.size - totalBytesRead, options.maxPartSize - curDest.size)

\* C15: every iteration of the copy loop copies, and records as packageSize,
\* min(srcFile.size - read, maxPartSize - currentPart.size) bytes
C15_CopiesWant ==
    [][Copying =>
          /\ bytesRead' = Want
          /\ totalBytesRead' = totalBytesRead + Want
          /\ Len(LocatedRecords') = Len(LocatedRecords) + 1
          /\ LocatedRecords'[Len(LocatedRecords')].rec.packageSize = Want
          /\ LocatedRecords'[Len(LocatedRecords')].rec.fileOffset = totalBytesRead
          /\ Sum(PartSizes') + curDest'.size = Sum(PartSizes) + curDest.size + Want]_vars

\* the second range of a file that did not fit the part before: the rest of
\* the file is smaller than the file and than the new part
C15_Witness ==
    /\ pc = "copy"
    /\ bytesRead > 0
    /\ totalBytesRead = srcFile.size
    /\ totalBytesRead > bytesRead
    /\ bytesRead < options.maxPartSize
    /\ curDest.size = bytesRead
    /\ Len(result.fileList) >= 1

----------------------------------------------------------------------------
(* C16 *)

\* the records of one part follow each other from offset 0 without gap
Contiguous(fileList) ==
    /\ fileList # << >> => fileList[1].packageOffset = 0
    /\ \A i \in 1..(Len(fileList) - 1) :
          /\ fileList[i + 1].packageOffset =
                fileList[i].packageOffset + fileList[i].packageSize
          /\ fileList[i + 1].packageOffset > fileList[i].packageOffset

\* C16: within every part the first record has packageOffset 0 and every
\* other record starts where the previous one ends, so the package ranges
\* are strictly increasing and never overlap
C16_RecordsContiguousInPart ==
    \A k \in 1..Len(PartLists) : Contiguous(PartLists[k])

\* a finalized part of two records, the second one the head of a file whose
\* tail is the first record of the part under construction
C16_Witness ==
    /\ Len(result.fileList) >= 1
    /\ Len(result.fileList[1].fileList) = 2
    /\ result.fileList[1].fileList[2].packageOffset > 0
    /\ Len(curDest.fileList) >= 1
    /\ curDest.fileList[1].fileOffset > 0
    /\ curDest.fileList[1].packageOffset = 0

----------------------------------------------------------------------------
(* C17 *)

\* C17: an entry of result.fileList never changes after finalizePart
\* appended it (name, sha1, size, compressed fields and fileList), and
\* result.fileList only grows
C17_FinalizedEntriesFrozen ==
    [][/\ Len(result'.fileList) >= Len(result.fileList)
       /\ \A k \in 1..Len(result.fileList) :
             result'.fileList[k] = result.fileList[k]]_vars

\* records are pushed to the third part after two parts were finalized
C17_Witness ==
    /\ Len(result.fileList) = 2
    /\ Len(result.fileList[1].fileList) >= 1
    /\ Len(curDest.fileList) >= 1
    /\ curDest.fileListId \notin
          {result.fileList[k].fileListId : k \in 1..Len(result.fileList)}

----------------------------------------------------------------------------
(* C18 *)

\* C18: a source file of size 0 adds no FileRecord and leaves the size and
\* the hash of the current part as they are, and every FileRecord has
\* packageSize > 0
C18_EmptyFileLeavesNoTrace ==
    /\ [](/\ \A i \in 1..Len(LocatedRecords) : LocatedRecords[i].rec.packageSize > 0
          /\ \A f \in 1..Len(enumerated) :
                enumerated[f].size = 0 => RecordsOfFile(f) = << >>)
    /\ [][(\/ pc = "next" /\ pc' = "copy" /\ srcFile'.size = 0
           \/ pc = "copy" /\ srcFile.size = 0) =>
            /\ curDest' = curDest
            /\ result' = result
            /\ dstFs' = dstFs
            /\ pc' \in {"copy", "next"}]_vars

\* an empty file processed between two files that left records
C18_Witness ==
    /\ pc = "next"
    /\ Len(enumerated) = 2
    /\ enumerated[1].size > 0
    /\ enumerated[2].size = 0
    /\ curDest.size > 0
    /\ RecordsOfFile(2) = << >>
    /\ RecordsOfFile(1) # << >>

----------------------------------------------------------------------------
(* C20 *)

\* pack() is about to call finalizePart for the last part
FinalFinalizeDue == pc = "next" /\ Len(enumerated) = Len(srcDir)

\* C20: whenever finalizePart runs, the temp file of the part it finalizes
\* exists, also for the final finalizePart after a rollover caused by the
\* last byte of the last file and for trees of zero-size files only
C20_TempFileExistsAtFinalize ==
    FinalFinalizeDue => TmpExists(curDest, dstFs)

----------------------------------------------------------------------------
(* packFile: FilePacker.pack(srcDir, dstDir) of src/unnamed/part_001.  The
   locals of pack live in the variables of the packDir model: curDest holds
   destEntry, destPath (path) and hash (sha1: the bytes fed, digested: digest
   was called on it), totalBytesRead holds srcRead. *)

\* the locals partNumber, hash, destEntry and destPath for a new part
NewDestEntry(res, opts) ==
    LET dstName == Replace(opts.outputNameFormat, Placeholder, currentPartNumber(res))
    IN  [name           |-> dstName,
         path           |-> dstName,
         sha1           |-> NewHash,
         digested       |-> FALSE,
         size           |-> 0,
         compressed     |-> opts.compress,
         compressedSize |-> << >>,
         fileListId     |-> Len(res.fileList) + 1,
         fileList       |-> << >>]

\* this.result after the finalizePart of the packFile variant, which sets
\* compressedSize on the entry it is given
PackFileFinalizeResult(dstEntry, res, fs) ==
    LET entry == FinalEntry(dstEntry, fs)
    IN  [res EXCEPT
            !.totalSize = @ + entry.size,
            !.compressedSize = @ + OrElse(entry.compressedSize, entry.size),
            !.fileList = Append(@, entry)]

\* hash.update or hash.digest on a hash digest was called on throws
HashFinalized(dstEntry) == dstEntry.digested

PackFileInit ==
    \E tree \in SourceTrees, m \in 1..MaxPartSize, c \in BOOLEAN,
       f \in OutputNameFormats, exists \in BOOLEAN :
        /\ pc = "pf_new"
        /\ err = ""
        /\ options = [maxPartSize |-> m, outputNameFormat |-> f, compress |-> c]
        /\ srcDir = tree
        /\ enumerated = << >>
        /\ srcFile = NoFile
        /\ totalBytesRead = 0
        /\ streamEnd = 0
        /\ bytesRead = 0
        /\ curDest = NoDest
        /\ result = NewResult
        /\ dstExists = exists
        /\ dstFs = << >>
        /\ manifest = << >>

\* packFile: new FilePacker(options)
PackFileConstruct ==
    /\ pc = "pf_new"
    /\ IF ~Includes(options.outputNameFormat, Placeholder)
       THEN /\ pc' = "error"
            /\ err' = "config"
            /\ UNCHANGED options
       ELSE /\ options' = NormalizeOptions(options)
            /\ pc' = "pf_pack"
            /\ err' = err
    /\ UNCHANGED <<srcDir, enumerated, srcFile, totalBytesRead, streamEnd,
                   bytesRead, curDest, result, dstExists, dstFs, manifest>>

\* pack: create the destination directory and set up the first part
PackFileStart ==
    /\ pc = "pf_pack"
    /\ dstExists' = TRUE
    /\ curDest' = NewDestEntry(result, options)
    /\ pc' = "pf_next"
    /\ UNCHANGED <<err, options, srcDir, enumerated, srcFile, totalBytesRead,
                   streamEnd, bytesRead, result, dstFs, manifest>>

\* pack: the generator yields the next file
PackFileNextFile ==
    /\ pc = "pf_next"
    /\ Len(enumerated) < Len(srcDir)
    /\ LET f == Len(enumerated) + 1
           src == [path |-> f, size |-> srcDir[f]]
       IN  /\ enumerated' = Append(enumerated, src)
           /\ srcFile' = src
    /\ totalBytesRead' = 0
    /\ streamEnd' = 0
    /\ bytesRead' = 0
    /\ pc' = "pf_copy"
    /\ UNCHANGED <<err, options, srcDir, curDest, result, dstExists, dstFs,
                   manifest>>

\* pack: one iteration of the while loop.  The transform's hash.update throws
\* on the first chunk when the hash was digested already; the write stream
\* may or may not have created the temp file by then
PackFileCopyStep ==
    /\ pc = "pf_copy"
    /\ LoopCondition(totalBytesRead, srcFile)
    /\ Len(curDest.fileList) < MaxRecords
    /\ LET end == StreamEnd(totalBytesRead, srcFile, curDest, options)
           chunk == ReadRange(srcFile.path, totalBytesRead, end,
                              srcDir[srcFile.path])
           fs1 == WriteAppend(dstFs, TmpPath(curDest.path), chunk)
           rec == FileRecord(srcFile, totalBytesRead, curDest.size, Len(chunk))
           cur1 == [curDest EXCEPT
                       !.sha1 = HashUpdate(@, chunk),
                       !.fileList = Append(@, rec),
                       !.size = @ + Len(chunk)]
           res1 == PushRecord(result, curDest.fileListId, rec)
       IN  /\ streamEnd' = end
           /\ IF HashFinalized(curDest) /\ chunk # << >>
              THEN /\ pc' = "error"
                   /\ err' = "hash"
                   /\ dstFs' \in {dstFs,
                                   WriteAppend(dstFs, TmpPath(curDest.path), << >>)}
                   /\ UNCHANGED <<bytesRead, totalBytesRead, curDest, result>>
              ELSE /\ bytesRead' = Len(chunk)
                   /\ totalBytesRead' = totalBytesRead + Len(chunk)
                   /\ IF PartFull(cur1, options)
                      THEN /\ result' = PackFileFinalizeResult(cur1, res1, fs1)
                           /\ dstFs' = FinalizeFs(cur1, fs1)
                           /\ curDest' = NewDestEntry(result', options)
                      ELSE /\ result' = res1
                           /\ dstFs' = fs1
                           /\ curDest' = cur1
                   /\ UNCHANGED <<pc, err>>
    /\ UNCHANGED <<options, srcDir, enumerated, srcFile, dstExists, manifest>>

\* pack: the while loop of a source file is over; still inside the for loop,
\* digest the hash, finalize the current part, set result.parts and write the
\* manifest.  hash and destEntry are not renewed
PackFileEndOfFile ==
    /\ pc = "pf_copy"
    /\ ~LoopCondition(totalBytesRead, srcFile)
    /\ IF HashFinalized(curDest)
       THEN /\ pc' = "error"
            /\ err' = "hash"
            /\ UNCHANGED <<curDest, result, dstFs, manifest>>
       ELSE /\ curDest' = [curDest EXCEPT !.digested = TRUE]
            /\ IF TmpExists(curDest, dstFs)
               THEN /\ result' = [PackFileFinalizeResult(curDest, result, dstFs)
                                     EXCEPT !.parts = Len(result.fileList) + 1]
                    /\ dstFs' = FinalizeFs(curDest, dstFs)
                    /\ manifest' = Append(manifest,
                                          [path    |-> Replace(options.outputNameFormat,
                                                               Placeholder, Dat),
                                           content |-> result'])
                    /\ pc' = "pf_next"
                    /\ err' = err
               ELSE /\ dstFs' \in FinalizeFailFs(curDest, dstFs)
                    /\ pc' = "error"
                    /\ err' = "io"
                    /\ UNCHANGED <<result, manifest>>
    /\ UNCHANGED <<options, srcDir, enumerated, srcFile, totalBytesRead,
                   streamEnd, bytesRead, dstExists>>

\* pack: the generator is exhausted; return this.result
PackFileReturn ==
    /\ pc = "pf_next"
    /\ Len(enumerated) = Len(srcDir)
    /\ pc' = "done"
    /\ UNCHANGED <<err, options, srcDir, enumerated, srcFile, totalBytesRead,
                   streamEnd, bytesRead, curDest, result, dstExists, dstFs,
                   manifest>>

PackFileNext ==
    \/ PackFileConstruct
    \/ PackFileStart
    \/ PackFileNextFile
    \/ PackFileCopyStep
    \/ PackFileEndOfFile
    \/ PackFileReturn

\* packFile on a source tree nobody else touches during the run
SpecPackFile == PackFileInit /\ [][PackFileNext]_vars

----------------------------------------------------------------------------
(* C19 *)

\* at least two files with bytes, all of which fit in one part with room left
FitTogether ==
    /\ Len(srcDir) >= 2
    /\ \A f \in 1..Len(srcDir) : srcDir[f] > 0
    /\ Sum(srcDir) < options.maxPartSize

\* C19: in the packFile variant the manifest is written once, when all source
\* files are enumerated and copied; source files that fit in one part
\* together end up in the same part; and no hash is used after its digest
C19_PackFileFinalizesAtTheEnd ==
    /\ Len(manifest) <= 1
    /\ manifest # << >> =>
          /\ Len(enumerated) = Len(srcDir)
          /\ \A f \in 1..Len(srcDir) : Processed(f)
    /\ err # "hash"
    /\ (FitTogether /\ (Succeeded \/ Failed) /\ err # "config") =>
          /\ Succeeded
          /\ Len(result.fileList) = 1
          /\ \A f \in 1..Len(srcDir) :
                \E i \in 1..Len(result.fileList[1].fileList) :
                    result.fileList[1].fileList[i].filePath = f

----------------------------------------------------------------------------
(* C21 *)

\* a step of processFile's copy loop (and not of the environment)
CopyIteration == Copying /\ srcDir' = srcDir

\* C21: packDir terminates: every iteration of the copy loop starts with
\* room in the current part, transfers at least one byte and so strictly
\* increases the bytes consumed from the file, and appends no zero-length
\* FileRecord, also when the file is shorter than its enumerated size
C21_EveryIterationProgresses ==
    [][CopyIteration =>
          /\ curDest.size < options.maxPartSize
          /\ totalBytesRead' > totalBytesRead
          /\ bytesRead' >= 1
          /\ \A i \in 1..Len(LocatedRecords') :
                LocatedRecords'[i].rec.packageSize > 0]_vars

----------------------------------------------------------------------------
(* A destination directory with a leftover temp file *)

\* the bytes an earlier, failed run left in a temp file (of no source file
\* of this run)
LeftoverBytes == << <<0, 0>> >>

\* packDir called with a destination directory that holds the temp file of
\* part i, left by an earlier run that failed
InitLeftover ==
    \E tree \in SourceTrees, m \in 1..MaxPartSize, c \in BOOLEAN,
       f \in OutputNameFormats, i \in 1..2 :
        LET opts == [maxPartSize |-> m, outputNameFormat |-> f, compress |-> c]
            tmp == TmpPath(PartName(i, NormalizeOptions(opts)))
        IN  /\ pc = "new"
            /\ err = ""
            /\ options = opts
            /\ srcDir = tree
            /\ enumerated = << >>
            /\ srcFile = NoFile
            /\ totalBytesRead = 0
            /\ streamEnd = 0
            /\ bytesRead = 0
            /\ curDest = NoDest
            /\ result = NewResult
            /\ dstExists = TRUE
            /\ dstFs = [p \in {tmp} |-> RawFile(LeftoverBytes)]
            /\ manifest = << >>

\* packDir into a destination directory an earlier run failed in
SpecLeftover == InitLeftover /\ [][Next]_vars

----------------------------------------------------------------------------
(* C22 *)

\* C22: after a successful run with compress = false every part file holds
\* exactly the bytes recorded for it: its length is the entry's size and its
\* content hashes to the entry's sha1, whatever the destination directory
\* held before the run
C22_PartFilesMatchEntries ==
    (Succeeded /\ ~options.compress) =>
        \A k \in 1..Len(result.fileList) :
            /\ result.fileList[k].name \in DOMAIN dstFs
            /\ Len(dstFs[result.fileList[k].name].data) = result.fileList[k].size
            /\ HashDigest(dstFs[result.fileList[k].name].data) = result.fileList[k].sha1

====
